---- MODULE Spec2Model ----
(***************************************************************************)
(* The runtime key-value store of sylphie_database (kvs.rs):               *)
(* BaseKvsStore::get / set / remove over a per-key LockSet, an LruCache of *)
(* Option<V> entries and one data table of (key, value, value_schema_id,   *)
(* value_schema_ver) rows.  Callers are asynchronous tasks; every await    *)
(* of the source is a separate step of the caller.                         *)
(* The startup protocol, init_kvs, is modelled over a sequence of process  *)
(* runs on one database: migrations, load, reconciliation (init_module),   *)
(* cleanup and the InitKvsLate dispatch.  SylphieCore::start (core/mod.rs)  *)
(* is modelled for the calls made in one process.                          *)
(***************************************************************************)
EXTENDS Integers, Sequences, FiniteSets, TLC

\* ------------------------------------------------------------------ bounds
\* Concurrent callers of one store, and the keys they use.
Procs == {"p1", "p2"}
Keys == {"k1", "k2"}
\* Values are 1..MaxVal.
MaxVal == 2

\* Values a caller passes to set.
Vals == 1..MaxVal
\* LruCache::new(1024): the capacity is smaller than the set of keys in use,
\* so that insertions evict.
CacheCapacity == Cardinality(Keys) - 1

\* ------------------------------------------------ value type V (DbSerializable)
\* V::ID and V::SCHEMA_VERSION of the value type compiled into the store.
V_ID == "profile"
V_SCHEMA_VERSION == 2
\* The version of V::ID the value type can still migrate from.
V_OLD_VERSION == 1
\* A schema name of some other value type, found in rows written by other code.
FOREIGN_ID == "legacy"

\* Option<V>: None is 0, Some(v) is v > 0.
None == 0
Some(v) == v

\* Result<Option<V>> and Result<()> as one record shape.
Ok(x) == [ok |-> TRUE, val |-> x, err |-> ""]
Err(e) == [ok |-> FALSE, val |-> None, err |-> e]

\* V::Format::serialize: the bytes carry the layout version they were written in.
Serialize(v) == <<V_SCHEMA_VERSION, v>>
\* V::Format::deserialize: only bytes of the current layout decode.
Deserialize(bytes) ==
    IF Len(bytes) = 2 /\ bytes[1] = V_SCHEMA_VERSION
    THEN Ok(Some(bytes[2]))
    ELSE Err("deserialize")

\* V::can_migrate_from(name, version)
CanMigrateFrom(name, ver) == name = V_ID /\ ver = V_OLD_VERSION
\* The upgrade of an old value to the current layout: distinguishable from the
\* value the old bytes would decode to if read raw.
Upgrade(v) == v + MaxVal
\* V::do_migration(name, version, bytes)
DoMigration(name, ver, bytes) ==
    IF Len(bytes) = 2 /\ bytes[1] = ver
    THEN Ok(Some(Upgrade(bytes[2])))
    ELSE Err("migrate")

\* Every value a get can return.
AllVals == 1..(2 * MaxVal)

\* ------------------------------------------------------------ StringInterner
\* lookup_name: name -> id, stable for the lifetime of the database.
LookupName(name) ==
    CASE name = V_ID -> 1
      [] name = FOREIGN_ID -> 2
      [] name = "uid" -> 3
      [] OTHER -> 4
\* lookup_id: id -> name.
LookupId(id) ==
    CASE id = 1 -> V_ID
      [] id = 2 -> FOREIGN_ID
      [] id = 3 -> "uid"
      [] OTHER -> "gid"

\* ------------------------------------------------------------ the data table
\* The absence of a row for a key.
NoRow == [bytes |-> <<>>, sid |-> 0, ver |-> 0]
\* A row as store_value writes it.
StoredRow(v, value_schema_id) ==
    [bytes |-> Serialize(v), sid |-> value_schema_id, ver |-> V_SCHEMA_VERSION]
\* Rows an earlier release of the module, or other code, left in the table.
LegacyRows ==
    { [bytes |-> <<V_OLD_VERSION, 1>>, sid |-> LookupName(name), ver |-> V_OLD_VERSION] :
        name \in {V_ID, FOREIGN_ID} }
Rows == { StoredRow(v, LookupName(V_ID)) : v \in Vals } \cup LegacyRows

\* As if load_value skipped the migration branch.
LoadValueNoMigration(row, is_migration_mandatory) ==
    IF row # NoRow
    THEN IF V_ID = LookupId(row.sid) /\ V_SCHEMA_VERSION = row.ver
         THEN Deserialize(row.bytes)
         ELSE IF ~is_migration_mandatory
         THEN Ok(None)
         ELSE Err("unmigratable")
    ELSE Ok(None)
\* As if a row that cannot be migrated were treated as absent in every store.
LoadValueAbsentOnMismatch(row, is_migration_mandatory) ==
    IF row # NoRow
    THEN IF V_ID = LookupId(row.sid) /\ V_SCHEMA_VERSION = row.ver
         THEN Deserialize(row.bytes)
         ELSE IF CanMigrateFrom(LookupId(row.sid), row.ver)
         THEN DoMigration(LookupId(row.sid), row.ver, row.bytes)
         ELSE Ok(None)
    ELSE Ok(None)
\* As if a row that cannot be migrated were an error in every store.
LoadValueErrorOnMismatch(row, is_migration_mandatory) ==
    IF row # NoRow
    THEN IF V_ID = LookupId(row.sid) /\ V_SCHEMA_VERSION = row.ver
         THEN Deserialize(row.bytes)
         ELSE IF CanMigrateFrom(LookupId(row.sid), row.ver)
         THEN DoMigration(LookupId(row.sid), row.ver, row.bytes)
         ELSE Err("unmigratable")
    ELSE Ok(None)
\* KvsStoreQueries::load_value, after query_row returned `row`.
LoadValue(row, is_migration_mandatory) ==
    IF row # NoRow
    THEN LET schema_name == LookupId(row.sid) IN
         IF V_ID = schema_name /\ V_SCHEMA_VERSION = row.ver
         THEN Deserialize(row.bytes)
         ELSE IF CanMigrateFrom(schema_name, row.ver)
         THEN DoMigration(schema_name, row.ver, row.bytes)
         ELSE IF ~is_migration_mandatory
         THEN Ok(None)
         ELSE Err("unmigratable")
    ELSE Ok(None)

\* ------------------------------------------------------------------ LruCache
\* The cache is the recency list: least recently used first.
CacheHas(c, k) == \E i \in 1..Len(c) : c[i].k = k
CacheGet(c, k) == (CHOOSE i \in 1..Len(c) : c[i].k = k)
CacheEntry(c, k) == c[CacheGet(c, k)].e
CacheWithout(c, k) == SelectSeq(c, LAMBDA x : x.k # k)
\* LruCache::insert: the key becomes the most recent; the least recent entry
\* is evicted when the capacity is exceeded.
CacheInsert(c, k, e) ==
    LET put == Append(CacheWithout(c, k), [k |-> k, e |-> e]) IN
    IF Len(put) > CacheCapacity THEN Tail(put) ELSE put
\* A hit of cached_async: the entry becomes the most recent.
CacheTouch(c, k) == Append(CacheWithout(c, k), [k |-> k, e |-> CacheEntry(c, k)])

\* ------------------------------------------------------------------- LockSet
NoHolder == "none"
\* As if the store had one lock for all its keys.
LockKeyStoreWide(k) == "k1"
\* self.lock_set.lock(k.clone()): the lock entry an operation on k takes.
LockKey(k) == k
\* As if the guard were bound to `_`: dropped at once, so nobody holds the lock.
GuardBindingDropped(p) == NoHolder
\* let _guard = ...: the guard is bound for the whole body of the operation.
GuardBinding(p) == p

\* As if the lock were released by hand on the success path only.
GuardDropOnSuccess(ls, p, k, r) ==
    IF r.ok /\ ls[LockKey(k)] = p THEN [ls EXCEPT ![LockKey(k)] = NoHolder] ELSE ls
\* The guard is dropped when the operation's scope ends, whatever its outcome.
GuardDrop(ls, p, k, r) ==
    IF ls[LockKey(k)] = p THEN [ls EXCEPT ![LockKey(k)] = NoHolder] ELSE ls

\* --------------------------------------------------------------------- state
\* As if a failed database call were tried again on a fresh connection.
AfterDbErrorRetry(op) == "conn"
\* `?` on a failed database call: the operation ends and returns the error.
AfterDbError(op) == "done"

\* As if the operations went on without looking at what data.load() returned.
InitializedAlways(d) == TRUE
\* data.as_ref() is Some: expect(..) does not panic.
Initialized(d) == d.bound

\* ArcSwapOption<BaseKvsStoreInfo>: None until init_kvs_late stores it.
NoData == [bound |-> FALSE, value_id |-> 0]
\* BaseKvsStoreInfo::new: value_id is the interned id of V::ID.
BaseKvsStoreInfo == [bound |-> TRUE, value_id |-> LookupName(V_ID)]

Ops == {"get", "set", "remove"}
NoCall == [op |-> "none", k |-> "none", v |-> 0, row |-> NoRow]
\* Errors of the database layer, as opposed to errors about the stored value.
DbErrors == {"connect", "query", "serialize"}
\* Outcomes in which the operation returned no result about the stored value:
\* a database-layer error, a dropped future, the uninitialized-store panic.
NoAnswer == DbErrors \cup {"abandoned", "abandoned-waiting", "panic"}

\* ------------------------------------------------------------------ startup
\* Modules that own a store, and the key types their stores are compiled with
\* in one release or another, (K::ID, K::SCHEMA_VERSION): the stores of "ma"
\* change the version of their key type, those of "mb" its name.
Modules == {"ma", "mb"}
KeyTypes == {<<"uid", 1>>, <<"uid", 2>>, <<"gid", 1>>}
KeyTypesOf(module) ==
    IF module = "ma" THEN {<<"uid", 1>>, <<"uid", 2>>} ELSE {<<"uid", 1>>, <<"gid", 1>>}
\* KvsTarget: (module_path, is_transient).
Targets == Modules \X BOOLEAN
\* What a store passes to init_module.
Decls ==
    { d \in [module : Modules, is_transient : BOOLEAN, key : KeyTypes] :
        d.key \in KeyTypesOf(d.module) }
KvsTarget(d) == <<d.module, d.is_transient>>

\* blake3 of "{unique_id}|{module_name}", cut to 16 hex digits: the two module
\* names collide at nonce 0, and further along.
Blake3Prefix(unique_id, module_name) ==
    IF module_name = "ma" THEN unique_id ELSE 2 * unique_id
\* format!("sylphie_db_kvsdata_{}", hash)
TableName(hash) == <<"sylphie_db_kvsdata_", hash>>
\* As if the loop returned the name of nonce 0 without looking at the used names.
CreateTableNameNoProbe(used_table_names, module_name, unique_id) ==
    TableName(Blake3Prefix(0, module_name))
\* InitKvsEvent::create_table_name, from nonce unique_id on.
RECURSIVE CreateTableName(_, _, _)
CreateTableName(used_table_names, module_name, unique_id) ==
    LET table_name == TableName(Blake3Prefix(unique_id, module_name)) IN
    IF table_name \notin used_table_names
    THEN table_name
    ELSE CreateTableName(used_table_names, module_name, unique_id + 1)
\* The names the allocation can reach: one per namespace is enough.
TableNames ==
    { TableName(Blake3Prefix(n, m)) : n \in 0..(Cardinality(Targets) - 1), m \in Modules }
\* A data table: (is_transient, table_name).
TableIds == BOOLEAN \X TableNames

\* The kvs_schema_version every row is written with.
KVS_SCHEMA_VERSION == 0
\* A row of sylphie_db_kvs_info as create_kvs_table inserts it (module_path
\* and the storage area are the key it is kept under).
NoMeta == [table_name |-> <<>>, kvs_schema_version |-> 0, key_id |-> 0, key_version |-> 0]
MetaRow(table_name, key_id, key_version) ==
    [table_name |-> table_name, kvs_schema_version |-> KVS_SCHEMA_VERSION,
     key_id |-> LookupName(key_id), key_version |-> key_version]
\* KvsMetadata, the in-memory entry.
NoEntry == [table_name |-> <<>>, key_id |-> 0, key_version |-> 0, is_used |-> FALSE]
KvsMetadata(row, is_used) ==
    [table_name |-> row.table_name, key_id |-> row.key_id,
     key_version |-> row.key_version, is_used |-> is_used]

\* PERSISTENT_KVS_MIGRATIONS / TRANSIENT_KVS_MIGRATIONS
PERSISTENT_KVS_MIGRATIONS ==
    [is_transient |-> FALSE, target_version |-> 1, scripts |-> <<[from |-> 0, to |-> 1]>>]
TRANSIENT_KVS_MIGRATIONS ==
    [is_transient |-> TRUE, target_version |-> 1, scripts |-> <<[from |-> 0, to |-> 1]>>]
\* As if execute_sync ran every script whatever the stored version.
RunsScriptAlways(version, script) == TRUE
\* execute_sync applies a script when its from_version is the stored version.
RunsScript(version, script) == script.from = version

\* As if duplicates were looked for per (module, area).
DuplicateKeyPerArea(module, is_transient) == <<module, is_transient>>
\* found_modules is keyed by the module name alone.
DuplicateKey(module, is_transient) == module
\* As if no loaded entry were ever found for a declaration.
ExistingMetadataNone(mm, module, is_transient) == NoEntry
\* self.module_metadata.get_mut(&KvsTarget { module_path, is_transient })
ExistingMetadata(mm, module, is_transient) == mm[<<module, is_transient>>]
\* As if a declaration with another key type were accepted as it is.
KeyMatchesAlways(key_id, key_version, existing) == TRUE
\* key_id_matches && key_version_matches
KeyMatches(key_id, key_version, existing) ==
    /\ key_id = LookupId(existing.key_id)
    /\ key_version = existing.key_version
\* As if the cleanup dropped the table of every unused entry.
ShouldDropAnyArea(is_transient, metadata) == ~metadata.is_used
\* !metadata.is_used && key.is_transient
ShouldDrop(is_transient, metadata) == ~metadata.is_used /\ is_transient

\* As if the CREATE TABLE of a transaction that did not commit stayed.
RolledBackKeepsTable(tbls, id) == tbls \cup {id}
\* The tables after a transaction that created `id` is dropped without a
\* commit: it is rolled back.
RolledBack(tbls, id) == tbls

\* The positions of a process in init_kvs and after it.
Phases == {"down", "migrate_persistent", "migrate_transient", "connect", "load_persistent",
           "load_transient", "dispatch", "cleanup", "late", "up", "failed"}
\* Why init_kvs did not complete.
Failures == {"migration", "connect", "load", "future", "duplicate", "mismatch",
             "create", "drop", "no_table", "unbound"}
\* The failures that come from the database or the file system, not from what
\* the stores declare or what earlier runs left.
EnvironmentFailures == {"migration", "connect", "load", "create", "drop"}

\* ------------------------------------------------------------ SylphieCore
\* The calls of SylphieCore::start made in one process.
Cores == {"c1", "c2", "c3"}
\* The lock file db/<bot_name>.lock: free, or locked by another process.
Unlocked == "free"
OtherProcess == "other"
\* As if set_instance never found an instance.
AlreadyRunningNever(instance) == FALSE
\* GlobalInstance::set_instance panics where an instance has been set.
AlreadyRunning(instance) == instance
\* The positions of a call of start: not made yet, the statements of the
\* body in their order, and the three ways it ends.
CorePositions == {"new", "early_init", "lock", "runtime", "interface", "modules",
                  "database", "init_event", "interface_start", "shutdown_event", "wait",
                  "returned_ok", "returned_err", "panicked"}

\* --------------------------------------------------------------- histories
\* The last set/remove that took the lock of a key: none yet, one that has not
\* (or not successfully) returned, or the one that returned Ok.
NoWrite == [op |-> "none", val |-> 0]
Dirty == [op |-> "dirty", val |-> 0]
\* Cap of the history counters (they saturate).
CountCap == 2
Inc(n) == IF n < CountCap THEN n + 1 ELSE n
\* The key whose lookups are counted: the keys are interchangeable, and one
\* counted key shows whatever any key can show.
CountedKey == "k1"
\* The histories, one family recorded per behaviour (chosen by `track`).
Tracks == {"none", "writes", "values", "fetches", "migrations"}

VARIABLES
    is_transient,  \* T::IS_TRANSIENT of the store
    data,          \* self.data
    db,            \* the store's data table: key -> row
    cache,         \* self.cache
    lock_set,      \* self.lock_set: lock entry -> holder
    pc,            \* each caller's position in its operation
    cur,           \* each caller's operation and arguments
    res,           \* each caller's outcome once its operation ended
    track,         \* which family of histories this behaviour records
    lastw,         \* "writes": the last set/remove that took the lock of a key
    abs,           \* "values": the result the writes so far left for a key (at first
                   \*   what load_value makes of the persisted row, every result
                   \*   while a write on the key is in doubt)
    fetched,       \* "fetches": lookups issued for the counted key since it was last
                   \*   written or evicted
    migrations     \* "migrations": do_migration calls for a key since it was last written or evicted

VARIABLES
    phase,             \* where the process is in init_kvs
    failure,           \* why init_kvs ended early, if it did
    schema_version,    \* the stored version of each area's KVS migration set
    kvs_info,          \* sylphie_db_kvs_info of both areas: target -> row
    tables,            \* the data tables that exist: (is_transient, table_name)
    filled,            \* the data tables that hold value rows
    found_modules,     \* InitKvsEvent::found_modules
    used_table_names,  \* InitKvsEvent::used_table_names
    module_metadata,   \* the in-memory map: target -> KvsMetadata
    stores,            \* the stores registered in this process, as they declared
    cleaned,           \* entries the cleanup loop has visited
    bound              \* the table each store's BaseKvsStoreInfo addresses

VARIABLES
    SYLPHIE_RUNNING_GUARD,  \* whether the process-wide instance has been set
    lock_file,              \* who holds the exclusive lock on the lock file
    core_pc,                \* each call of start: its position
    initialized,            \* the calls that ran ModuleManager::init
    dispatched              \* the calls that dispatched InitEvent

process == <<SYLPHIE_RUNNING_GUARD, lock_file, core_pc, initialized, dispatched>>

startup == <<phase, failure, schema_version, kvs_info, tables, filled, found_modules,
             used_table_names, module_metadata, stores, cleaned, bound>>

runtime == <<is_transient, data, db, cache, lock_set, pc, cur, res,
             track, lastw, abs, fetched, migrations>>

vars == <<runtime, startup, process>>

counters == <<fetched, migrations>>

TypeOK ==
    /\ is_transient \in BOOLEAN
    /\ data \in {NoData, BaseKvsStoreInfo}
    /\ db \in [Keys -> Rows \cup {NoRow}]
    /\ Len(cache) <= CacheCapacity
    /\ lock_set \in [Keys -> Procs \cup {NoHolder}]
    /\ pc \in [Procs -> {"idle", "lock", "conn", "query", "exec", "execd", "done"}]
    /\ \A p \in Procs : cur[p].op \in Ops \cup {NoCall.op}
    /\ phase \in Phases
    /\ failure \in Failures \cup {""}
    /\ SYLPHIE_RUNNING_GUARD \in BOOLEAN
    /\ lock_file \in Cores \cup {Unlocked, OtherProcess}
    /\ core_pc \in [Cores -> CorePositions]
    /\ initialized \subseteq Cores
    /\ dispatched \subseteq Cores

Init ==
    /\ is_transient \in BOOLEAN
    /\ data = NoData
    /\ db \in [Keys -> Rows \cup {NoRow}]
    /\ cache = <<>>
    /\ lock_set = [k \in Keys |-> NoHolder]
    /\ pc = [p \in Procs |-> "idle"]
    /\ cur = [p \in Procs |-> NoCall]
    /\ res = [p \in Procs |-> Ok(None)]
    /\ track \in Tracks
    /\ lastw = [k \in Keys |-> NoWrite]
    /\ abs = [k \in Keys |-> IF track = "values"
                              THEN {LoadValue(db[k], ~is_transient)}
                              ELSE {}]
    /\ fetched = [k \in Keys |-> 0]
    /\ migrations = [k \in Keys |-> 0]
    /\ phase = "down"
    /\ failure = ""
    /\ schema_version = [a \in BOOLEAN |-> 0]
    /\ kvs_info = [t \in Targets |-> NoMeta]
    /\ tables = {}
    /\ filled = {}
    /\ found_modules = {}
    /\ used_table_names = {}
    /\ module_metadata = [t \in Targets |-> NoEntry]
    /\ stores = {}
    /\ cleaned = {}
    /\ bound = [t \in Targets |-> <<>>]
    /\ SYLPHIE_RUNNING_GUARD = FALSE
    /\ lock_file = Unlocked
    /\ core_pc = [c \in Cores |-> "new"]
    /\ initialized = {}
    /\ dispatched = {}

\* Every answer a get can give about a stored value.
Answers == { Ok(x) : x \in {None} \cup AllVals }
           \cup { Err(e) : e \in {"unmigratable", "deserialize", "migrate"} }
\* A write whose caller dropped it after the database executed the statement
\* is in doubt: the row has its value, the cache may hold the one before it.
InDoubt == Answers
\* The results a get of k may find: what the writes so far have left, or what
\* load_value makes of the persisted row while there was no write.
Left(k) == IF abs[k] = {} THEN {LoadValue(db[k], ~is_transient)} ELSE abs[k]

\* A counter of the keys, reset for the keys the step evicts from the cache.
AfterEviction(cnt, c2) ==
    [k \in Keys |-> IF CacheHas(cache, k) /\ ~CacheHas(c2, k) THEN 0 ELSE cnt[k]]

\* The operation of p ends with outcome r: its guard goes out of scope.
End(p, r) ==
    /\ pc' = [pc EXCEPT ![p] = "done"]
    /\ res' = [res EXCEPT ![p] = r]
    /\ lock_set' = GuardDrop(lock_set, p, cur[p].k, r)

\* No caller is between the end of its operation and taking the outcome.  The
\* outcome is taken (Return) before any other step: Return changes only the
\* caller's own registers, so it commutes with every step of the others.
Quiet == \A q \in Procs : pc[q] # "done"

\* init_kvs_late: the finalization event binds the store's runtime state.
InitKvsLate ==
    /\ Quiet
    /\ data = NoData
    /\ data' = BaseKvsStoreInfo
    /\ UNCHANGED <<process, startup, is_transient, db, cache, lock_set, pc, cur, res,
                   track, lastw, abs, counters>>

\* A caller invokes get(k), set(k, v) or remove(k): the future starts by
\* awaiting the per-key lock.
Call(p, op, k, v) ==
    /\ Quiet
    /\ pc[p] = "idle"
    /\ pc' = [pc EXCEPT ![p] = "lock"]
    /\ cur' = [cur EXCEPT ![p] = [op |-> op, k |-> k, v |-> v, row |-> NoRow]]
    /\ UNCHANGED <<process, startup, is_transient, data, db, cache, lock_set, res,
                   track, lastw, abs, counters>>

\* lock_set.lock(k).await completes; then self.data.load() and expect(..),
\* which panics on a store that is not initialized (the guard is dropped by
\* the unwinding); then the operation awaits connect_db().
Acquire(p) ==
    LET k == cur[p].k
        writes == data.bound /\ cur[p].op \in {"set", "remove"}
    IN
    /\ Quiet
    /\ pc[p] = "lock"
    /\ lock_set[LockKey(k)] = NoHolder
    /\ IF ~Initialized(data)
       THEN /\ pc' = [pc EXCEPT ![p] = "done"]
            /\ res' = [res EXCEPT ![p] = Err("panic")]
            /\ lock_set' = GuardDrop([lock_set EXCEPT ![LockKey(k)] = GuardBinding(p)],
                                     p, k, Err("panic"))
       ELSE /\ lock_set' = [lock_set EXCEPT ![LockKey(k)] = GuardBinding(p)]
            /\ pc' = [pc EXCEPT ![p] = "conn"]
            /\ res' = res
    /\ lastw' = IF writes /\ track = "writes" THEN [lastw EXCEPT ![k] = Dirty] ELSE lastw
    /\ fetched' = IF writes /\ track = "fetches" THEN [fetched EXCEPT ![k] = 0] ELSE fetched
    /\ migrations' = IF writes /\ track = "migrations" THEN [migrations EXCEPT ![k] = 0] ELSE migrations
    /\ UNCHANGED <<process, startup, is_transient, data, db, cache, cur, track, abs>>

\* target.connect_db().await fails: `?` returns the error.
ConnectFail(p) ==
    /\ Quiet
    /\ pc[p] = "conn"
    /\ End(p, Err("connect"))
    /\ UNCHANGED <<process, startup, is_transient, data, db, cache, cur, track, lastw, abs, counters>>

\* get, connected: cached_async returns the entry the cache holds for k.
GetHit(p) ==
    LET k == cur[p].k IN
    /\ Quiet
    /\ pc[p] = "conn"
    /\ cur[p].op = "get"
    /\ CacheHas(cache, k)
    /\ cache' = CacheTouch(cache, k)
    /\ End(p, Ok(CacheEntry(cache, k)))
    /\ UNCHANGED <<process, startup, is_transient, data, db, cur, track, lastw, abs, counters>>

\* get, connected, no entry: cached_async awaits load_value, which serializes
\* the key and issues the point lookup.  The database reads the row while the
\* caller is suspended; the row it read is kept in the caller's `row`.
GetMiss(p) ==
    LET k == cur[p].k IN
    /\ Quiet
    /\ pc[p] = "conn"
    /\ cur[p].op = "get"
    /\ ~CacheHas(cache, k)
    /\ \E serialized \in BOOLEAN :
         IF serialized
         THEN /\ pc' = [pc EXCEPT ![p] = "query"]
              /\ cur' = [cur EXCEPT ![p].row = db[k]]
              /\ fetched' = IF track = "fetches" /\ k = CountedKey
                            THEN [fetched EXCEPT ![k] = Inc(@)]
                            ELSE fetched
              /\ UNCHANGED <<res, lock_set>>
         ELSE /\ End(p, Err("serialize"))
              /\ UNCHANGED <<cur, fetched>>
    /\ UNCHANGED <<process, startup, is_transient, data, db, cache,
                   track, lastw, abs, migrations>>

\* set / remove, connected: store_value / delete_value serialize their
\* arguments and issue the statement.
WriteIssue(p) ==
    /\ Quiet
    /\ pc[p] = "conn"
    /\ cur[p].op \in {"set", "remove"}
    /\ \E serialized \in BOOLEAN :
         IF serialized
         THEN /\ pc' = [pc EXCEPT ![p] = "exec"]
              /\ UNCHANGED <<res, lock_set>>
         ELSE End(p, Err("serialize"))
    /\ UNCHANGED <<process, startup, is_transient, data, db, cache, cur, track, lastw, abs, counters>>

\* As if set marked the key absent in the cache, the way remove does.
WrittenEntryAbsent(c) == None
\* The entry set / remove leave in the cache.
WrittenEntry(c) == IF c.op = "set" THEN Some(c.v) ELSE None
\* As if the DELETE of remove matched no row.
ExecutedNoDelete(c) ==
    [db EXCEPT ![c.k] = IF c.op = "set" THEN StoredRow(c.v, data.value_id) ELSE @]
\* The table after the database executed the statement of c: REPLACE INTO for
\* set, DELETE for remove.
Executed(c) ==
    [db EXCEPT ![c.k] = IF c.op = "set" THEN StoredRow(c.v, data.value_id) ELSE NoRow]

\* The database executes the statement in flight while the caller is
\* suspended.
DbApply(p) ==
    /\ Quiet
    /\ pc[p] = "exec"
    /\ db' = Executed(cur[p])
    /\ pc' = [pc EXCEPT ![p] = "execd"]
    /\ UNCHANGED <<process, startup, is_transient, data, cache, lock_set, cur, res,
                   track, lastw, abs, counters>>

\* The query or statement in flight fails; the table is left as it was.
DbFail(p) ==
    /\ Quiet
    /\ pc[p] \in {"query", "exec"}
    /\ IF AfterDbError(cur[p].op) = "done"
       THEN End(p, Err("query"))
       ELSE /\ pc' = [pc EXCEPT ![p] = AfterDbError(cur[p].op)]
            /\ UNCHANGED <<res, lock_set>>
    /\ UNCHANGED <<process, startup, is_transient, data, db, cache, cur, track, lastw, abs, counters>>

\* Whether load_value calls do_migration on the row.
InvokesMigration(row) ==
    /\ row # NoRow
    /\ ~(V_ID = LookupId(row.sid) /\ V_SCHEMA_VERSION = row.ver)
    /\ CanMigrateFrom(LookupId(row.sid), row.ver)

\* As if load_value wrote a migrated value back in the current layout.
TableAfterLoadWriteBack(table, k, r) ==
    IF r.ok /\ r.val # None /\ InvokesMigration(table[k])
    THEN [table EXCEPT ![k] = StoredRow(r.val, LookupName(V_ID))]
    ELSE table
\* load_value issues the SELECT and no other statement: the table stays.
TableAfterLoad(table, k, r) == table

\* get: query_row returns; load_value computes its result from the row and
\* cached_async stores an Ok result in the cache before returning it.
GetLoaded(p) ==
    LET k == cur[p].k
        r == LoadValue(cur[p].row, ~is_transient)
        c2 == IF r.ok THEN CacheInsert(cache, k, r.val) ELSE cache
    IN
    /\ Quiet
    /\ pc[p] = "query"
    /\ db' = TableAfterLoad(db, k, r)
    /\ cache' = c2
    /\ End(p, r)
    /\ fetched' = IF track = "fetches" THEN AfterEviction(fetched, c2) ELSE fetched
    /\ migrations' = IF track = "migrations"
                     THEN AfterEviction(
                            [migrations EXCEPT ![k] =
                                IF InvokesMigration(cur[p].row) THEN Inc(@) ELSE @], c2)
                     ELSE migrations
    /\ UNCHANGED <<process, startup, is_transient, data, cur, track, lastw, abs>>

\* As if the cache were updated as soon as the statement is issued.
CacheUpdatePointIssued == "exec"
\* self.cache.insert comes after `.await?` on the statement: the operation is
\* there once the database has executed it.
CacheUpdatePoint == "execd"

\* set / remove: execute(..).await returned Ok; the cache entry is replaced
\* and the operation returns Ok(()).
WriteDone(p) ==
    LET k == cur[p].k
        c2 == CacheInsert(cache, k, WrittenEntry(cur[p]))
    IN
    /\ Quiet
    /\ pc[p] = CacheUpdatePoint
    /\ cache' = c2
    /\ End(p, Ok(None))
    /\ lastw' = IF track = "writes"
                THEN [lastw EXCEPT ![k] = [op |-> cur[p].op, val |-> cur[p].v]]
                ELSE lastw
    /\ abs' = IF track = "values"
              THEN [abs EXCEPT ![k] = {Ok(WrittenEntry(cur[p]))}]
              ELSE abs
    /\ fetched' = IF track = "fetches" THEN AfterEviction(fetched, c2) ELSE fetched
    /\ migrations' = IF track = "migrations" THEN AfterEviction(migrations, c2) ELSE migrations
    /\ UNCHANGED <<process, startup, is_transient, data, db, cur, track>>

\* The caller drops the future at one of its suspension points: the guard, if
\* taken, is dropped with it.  A statement the database has executed by then
\* stays executed.
Abandon(p) ==
    LET k == cur[p].k IN
    /\ Quiet
    /\ pc[p] \in {"lock", "conn", "query", "exec", "execd"}
    /\ End(p, Err(IF pc[p] = "lock" THEN "abandoned-waiting" ELSE "abandoned"))
    /\ abs' = IF pc[p] = "execd" /\ track = "values"
              THEN [abs EXCEPT ![k] = InDoubt]
              ELSE abs
    /\ UNCHANGED <<process, startup, is_transient, data, db, cache, cur, track, lastw, counters>>

\* The caller takes the outcome and is free to call again.
Return(p) ==
    /\ pc[p] = "done"
    /\ pc' = [pc EXCEPT ![p] = "idle"]
    /\ cur' = [cur EXCEPT ![p] = NoCall]
    /\ res' = [res EXCEPT ![p] = Ok(None)]
    /\ UNCHANGED <<process, startup, is_transient, data, db, cache, lock_set,
                   track, lastw, abs, counters>>

Next ==
    \/ InitKvsLate
    \/ \E p \in Procs, k \in Keys : Call(p, "get", k, 0)
    \/ \E p \in Procs, k \in Keys, v \in Vals : Call(p, "set", k, v)
    \/ \E p \in Procs, k \in Keys : Call(p, "remove", k, 0)
    \/ \E p \in Procs : Acquire(p)
    \/ \E p \in Procs : ConnectFail(p)
    \/ \E p \in Procs : GetHit(p)
    \/ \E p \in Procs : GetMiss(p)
    \/ \E p \in Procs : WriteIssue(p)
    \/ \E p \in Procs : DbApply(p)
    \/ \E p \in Procs : DbFail(p)
    \/ \E p \in Procs : GetLoaded(p)
    \/ \E p \in Procs : WriteDone(p)
    \/ \E p \in Procs : Abandon(p)
    \/ \E p \in Procs : Return(p)

\* The program alone, no history recorded.
InitPlain == Init /\ track = "none"
Spec == InitPlain /\ [][Next]_vars

\* The program with the history of writes recorded.
InitWrites == Init /\ track = "writes"
SpecWrites == InitWrites /\ [][Next]_vars
\* The program with the values left by the writes recorded.
InitValues == Init /\ track = "values"
SpecValues == InitValues /\ [][Next]_vars
\* The program with the lookups counted.
InitFetches == Init /\ track = "fetches"
SpecFetches == InitFetches /\ [][Next]_vars
\* The program with the do_migration calls counted.
InitMigrations == Init /\ track = "migrations"
SpecMigrations == InitMigrations /\ [][Next]_vars

\* ------------------------------------------------------------ init_kvs
\* As if the error were logged and init_kvs went on to the finalization.
FailLogged(kind) ==
    /\ phase' = "late"
    /\ failure' = kind
\* The step ends init_kvs early: an Err returned through `?`, or a panic.
Fail(kind) ==
    /\ phase' = "failed"
    /\ failure' = kind

\* The process starts: SylphieCore reaches init_kvs.
Start ==
    /\ phase = "down"
    /\ phase' = "migrate_persistent"
    /\ UNCHANGED <<process, runtime, failure, schema_version, kvs_info, tables, filled, found_modules,
                   used_table_names, module_metadata, stores, cleaned, bound>>

\* MigrationData::execute_sync of one migration set: the scripts that run on
\* the stored version are applied, each in its own transaction.  The script
\* 0 -> 1 creates sylphie_db_kvs_info, which fails where the table exists.
ExecuteSync(m) ==
    LET version == schema_version[m.is_transient]
        todo == SelectSeq(m.scripts, LAMBDA script : RunsScript(version, script))
        after == IF m.is_transient THEN "connect" ELSE "migrate_transient"
    IN
    /\ phase = (IF m.is_transient THEN "migrate_transient" ELSE "migrate_persistent")
    /\ IF todo = <<>>
       THEN /\ phase' = after
            /\ UNCHANGED <<failure, schema_version>>
       ELSE \E committed \in BOOLEAN :
                IF committed /\ version = Head(todo).from
                THEN /\ schema_version' = [schema_version EXCEPT ![m.is_transient] = Head(todo).to]
                     /\ phase' = after
                     /\ UNCHANGED failure
                ELSE /\ Fail("migration")
                     /\ UNCHANGED schema_version
    /\ UNCHANGED <<process, runtime, kvs_info, tables, filled, found_modules,
                   used_table_names, module_metadata, stores, cleaned, bound>>

\* target.connect_db_sync()?
ConnectDbSync ==
    /\ phase = "connect"
    /\ \E connected \in BOOLEAN :
         IF connected
         THEN phase' = "load_persistent" /\ UNCHANGED failure
         ELSE Fail("connect")
    /\ UNCHANGED <<process, runtime, schema_version, kvs_info, tables, filled, found_modules,
                   used_table_names, module_metadata, stores, cleaned, bound>>

\* InitKvsEvent::load_kvs_metadata(is_transient): every row of the area's
\* sylphie_db_kvs_info becomes an entry with is_used = false.
LoadKvsMetadata(area) ==
    LET loaded == { t \in Targets : t[2] = area /\ kvs_info[t] # NoMeta } IN
    /\ phase = (IF area THEN "load_transient" ELSE "load_persistent")
    /\ \E answered \in BOOLEAN :
         IF ~answered
         THEN Fail("load") /\ UNCHANGED <<used_table_names, module_metadata>>
         ELSE IF \E t \in loaded : kvs_info[t].kvs_schema_version # 0
         THEN Fail("future") /\ UNCHANGED <<used_table_names, module_metadata>>
         ELSE /\ used_table_names' =
                    used_table_names \cup { kvs_info[t].table_name : t \in loaded }
              /\ module_metadata' =
                    [t \in Targets |-> IF t \in loaded
                                       THEN KvsMetadata(kvs_info[t], FALSE)
                                       ELSE module_metadata[t]]
              /\ phase' = (IF area THEN "dispatch" ELSE "load_transient")
              /\ UNCHANGED failure
    /\ UNCHANGED <<process, runtime, schema_version, kvs_info, tables, filled, found_modules,
                   stores, cleaned, bound>>

\* The reconciliation event reaches the init_kvs handler of one more store:
\* InitKvsEvent::init_module, with create_table_name and create_kvs_table.
InitModule(d) ==
    LET t == KvsTarget(d)
        existing_metadata == ExistingMetadata(module_metadata, d.module, d.is_transient)
        table_name == CreateTableName(used_table_names, d.module, 0)
    IN
    /\ phase = "dispatch"
    /\ IF DuplicateKey(d.module, d.is_transient) \in found_modules
       THEN /\ Fail("duplicate")
            /\ UNCHANGED <<kvs_info, tables, found_modules, used_table_names,
                           module_metadata, stores>>
       ELSE /\ found_modules' = found_modules \cup {DuplicateKey(d.module, d.is_transient)}
            /\ IF existing_metadata # NoEntry
               THEN /\ module_metadata' = [module_metadata EXCEPT ![t].is_used = TRUE]
                    /\ IF KeyMatches(d.key[1], d.key[2], existing_metadata)
                       THEN /\ stores' = stores \cup {t}
                            /\ UNCHANGED <<phase, failure>>
                       ELSE /\ Fail("mismatch")
                            /\ UNCHANGED stores
                    /\ UNCHANGED <<kvs_info, tables, used_table_names>>
               ELSE \E committed \in BOOLEAN :
                        IF committed /\ <<d.is_transient, table_name>> \notin tables
                        THEN /\ tables' = tables \cup {<<d.is_transient, table_name>>}
                             /\ kvs_info' = [kvs_info EXCEPT
                                                ![t] = MetaRow(table_name, d.key[1], d.key[2])]
                             /\ used_table_names' = used_table_names \cup {table_name}
                             /\ module_metadata' = [module_metadata EXCEPT
                                    ![t] = KvsMetadata(MetaRow(table_name, d.key[1], d.key[2]), TRUE)]
                             /\ stores' = stores \cup {t}
                             /\ UNCHANGED <<phase, failure>>
                        ELSE /\ Fail("create")
                             /\ tables' = RolledBack(tables, <<d.is_transient, table_name>>)
                             /\ UNCHANGED <<kvs_info, used_table_names,
                                            module_metadata, stores>>
    /\ UNCHANGED <<process, runtime, schema_version, filled, cleaned, bound>>

\* target.dispatch_sync(event)? returned Ok: every registered store declared.
\* The event was moved into the dispatch: its found_modules and
\* used_table_names are dropped with it.
DispatchDone ==
    /\ phase = "dispatch"
    /\ phase' = "cleanup"
    /\ found_modules' = {}
    /\ used_table_names' = {}
    /\ UNCHANGED <<process, runtime, failure, schema_version, kvs_info, tables, filled,
                   module_metadata, stores, cleaned, bound>>

\* One turn of the cleanup loop on an entry it has to drop: DROP TABLE, which
\* is an error where there is no such table, and can fail as any statement.
CleanupDrop(t) ==
    LET id == <<t[2], module_metadata[t].table_name>> IN
    /\ phase = "cleanup"
    /\ module_metadata[t] # NoEntry
    /\ t \notin cleaned
    /\ ShouldDrop(t[2], module_metadata[t])
    /\ IF id \notin tables
       THEN /\ Fail("no_table")
            /\ UNCHANGED <<tables, filled, cleaned>>
       ELSE \E executed \in BOOLEAN :
                IF executed
                THEN /\ tables' = tables \ {id}
                     /\ filled' = filled \ {id}
                     /\ cleaned' = cleaned \cup {t}
                     /\ UNCHANGED <<phase, failure>>
                ELSE /\ Fail("drop")
                     /\ UNCHANGED <<tables, filled, cleaned>>
    /\ UNCHANGED <<process, runtime, schema_version, kvs_info, found_modules,
                   used_table_names, module_metadata, stores, bound>>

\* The cleanup loop has visited every entry; the connection is dropped.
CleanupDone ==
    /\ phase = "cleanup"
    /\ \A t \in Targets :
         (module_metadata[t] # NoEntry /\ ShouldDrop(t[2], module_metadata[t]))
             => t \in cleaned
    /\ phase' = "late"
    /\ UNCHANGED <<process, runtime, failure, schema_version, kvs_info, tables, filled, found_modules,
                   used_table_names, module_metadata, stores, cleaned, bound>>

\* target.dispatch_sync(InitKvsLate { module_metadata }): every store binds
\* its queries to the table name of its entry (BaseKvsStoreInfo::new, which
\* unwraps the entry).  The map was moved into the event and is dropped with
\* it; init_kvs returns Ok(()).
DispatchInitKvsLate ==
    /\ phase = "late"
    /\ IF \E t \in stores : module_metadata[t] = NoEntry
       THEN Fail("unbound") /\ UNCHANGED <<bound, module_metadata, cleaned>>
       ELSE /\ bound' = [t \in Targets |-> IF t \in stores
                                            THEN module_metadata[t].table_name
                                            ELSE <<>>]
            /\ module_metadata' = [t \in Targets |-> NoEntry]
            /\ cleaned' = {}
            /\ phase' = "up"
            /\ UNCHANGED failure
    /\ UNCHANGED <<process, runtime, schema_version, kvs_info, tables, filled, found_modules,
                   used_table_names, stores>>

\* A store of the running process writes a value: its REPLACE INTO reaches the
\* table its queries name, if there is one.
StoreValue(t) ==
    /\ phase = "up"
    /\ t \in stores
    /\ <<t[2], bound[t]>> \in tables
    /\ filled' = filled \cup {<<t[2], bound[t]>>}
    /\ UNCHANGED <<process, runtime, phase, failure, schema_version, kvs_info, tables, found_modules,
                   used_table_names, module_metadata, stores, cleaned, bound>>

\* The process ends, after running or after a failed startup: what it held
\* in memory is gone, the database stays.
Exit ==
    /\ phase \in {"up", "failed"}
    /\ phase' = "down"
    /\ failure' = ""
    /\ found_modules' = {}
    /\ used_table_names' = {}
    /\ module_metadata' = [t \in Targets |-> NoEntry]
    /\ stores' = {}
    /\ cleaned' = {}
    /\ bound' = [t \in Targets |-> <<>>]
    /\ UNCHANGED <<process, runtime, schema_version, kvs_info, tables, filled>>

NextStartup ==
    \/ Start
    \/ ExecuteSync(PERSISTENT_KVS_MIGRATIONS)
    \/ ExecuteSync(TRANSIENT_KVS_MIGRATIONS)
    \/ ConnectDbSync
    \/ LoadKvsMetadata(FALSE)
    \/ LoadKvsMetadata(TRUE)
    \/ \E d \in Decls : InitModule(d)
    \/ DispatchDone
    \/ \E t \in Targets : CleanupDrop(t)
    \/ CleanupDone
    \/ DispatchInitKvsLate
    \/ \E t \in Targets : StoreValue(t)
    \/ Exit

\* The startups of a sequence of process runs over one database.
InitStartup ==
    /\ Init
    /\ track = "none"
    /\ ~is_transient
    /\ db = [k \in Keys |-> NoRow]
SpecStartup == InitStartup /\ [][NextStartup]_vars

\* ------------------------------------------------------- SylphieCore::start
\* The call of c returns: _lock goes out of scope, which closes the lock file
\* and so releases its lock.  Nothing start does clears the instance.
CoreReturn(c, position) ==
    /\ core_pc' = [core_pc EXCEPT ![c] = position]
    /\ lock_file' = IF lock_file = c THEN Unlocked ELSE lock_file

\* start is called: SYLPHIE_RUNNING_GUARD.set_instance(()), the first
\* statement of the body, panics where an instance has been set.
SetInstance(c) ==
    /\ core_pc[c] = "new"
    /\ IF AlreadyRunning(SYLPHIE_RUNNING_GUARD)
       THEN /\ core_pc' = [core_pc EXCEPT ![c] = "panicked"]
            /\ UNCHANGED SYLPHIE_RUNNING_GUARD
       ELSE /\ SYLPHIE_RUNNING_GUARD' = TRUE
            /\ core_pc' = [core_pc EXCEPT ![c] = "early_init"]
    /\ UNCHANGED <<runtime, startup, lock_file, initialized, dispatched>>

\* early_init()
EarlyInit(c) ==
    /\ core_pc[c] = "early_init"
    /\ core_pc' = [core_pc EXCEPT ![c] = "lock"]
    /\ UNCHANGED <<runtime, startup, SYLPHIE_RUNNING_GUARD, lock_file, initialized, dispatched>>

\* let _lock = self.lock()?: check_lock opens the lock file and tries the
\* exclusive lock, which fails where somebody holds it.
Lock(c) ==
    /\ core_pc[c] = "lock"
    /\ \E opened \in BOOLEAN :
         IF opened /\ lock_file = Unlocked
         THEN /\ lock_file' = c
              /\ core_pc' = [core_pc EXCEPT ![c] = "runtime"]
         ELSE CoreReturn(c, "returned_err")
    /\ UNCHANGED <<runtime, startup, SYLPHIE_RUNNING_GUARD, initialized, dispatched>>

\* A fallible statement of the body that changes nothing the model keeps:
\* the tokio runtime is built, Interface::new, self.init_db() building the
\* handler, interface.start(&handler).
Fallible(c, position, next) ==
    /\ core_pc[c] = position
    /\ \E succeeded \in BOOLEAN :
         IF succeeded
         THEN core_pc' = [core_pc EXCEPT ![c] = next] /\ UNCHANGED lock_file
         ELSE CoreReturn(c, "returned_err")
    /\ UNCHANGED <<runtime, startup, SYLPHIE_RUNNING_GUARD, initialized, dispatched>>

\* ModuleManager::init::<R>()
ModuleManagerInit(c) ==
    /\ core_pc[c] = "modules"
    /\ initialized' = initialized \cup {c}
    /\ core_pc' = [core_pc EXCEPT ![c] = "database"]
    /\ UNCHANGED <<runtime, startup, SYLPHIE_RUNNING_GUARD, lock_file, dispatched>>

\* runtime.block_on(handler.dispatch_async(InitEvent))
DispatchInitEvent(c) ==
    /\ core_pc[c] = "init_event"
    /\ dispatched' = dispatched \cup {c}
    /\ core_pc' = [core_pc EXCEPT ![c] = "interface_start"]
    /\ UNCHANGED <<runtime, startup, SYLPHIE_RUNNING_GUARD, lock_file, initialized>>

\* runtime.block_on(handler.dispatch_async(ShutdownEvent))
DispatchShutdownEvent(c) ==
    /\ core_pc[c] = "shutdown_event"
    /\ core_pc' = [core_pc EXCEPT ![c] = "wait"]
    /\ UNCHANGED <<runtime, startup, SYLPHIE_RUNNING_GUARD, lock_file, initialized, dispatched>>

\* The wait for the other threads ends and start returns Ok(()).
WaitForShutdown(c) ==
    /\ core_pc[c] = "wait"
    /\ CoreReturn(c, "returned_ok")
    /\ UNCHANGED <<runtime, startup, SYLPHIE_RUNNING_GUARD, initialized, dispatched>>

\* Another process of the same bot takes the lock file, or lets go of it.
OtherProcessLocks ==
    /\ lock_file \in {Unlocked, OtherProcess}
    /\ lock_file' = IF lock_file = Unlocked THEN OtherProcess ELSE Unlocked
    /\ UNCHANGED <<runtime, startup, SYLPHIE_RUNNING_GUARD, core_pc, initialized, dispatched>>

NextCore ==
    \/ \E c \in Cores : SetInstance(c)
    \/ \E c \in Cores : EarlyInit(c)
    \/ \E c \in Cores : Lock(c)
    \/ \E c \in Cores : Fallible(c, "runtime", "interface")
    \/ \E c \in Cores : Fallible(c, "interface", "modules")
    \/ \E c \in Cores : ModuleManagerInit(c)
    \/ \E c \in Cores : Fallible(c, "database", "init_event")
    \/ \E c \in Cores : DispatchInitEvent(c)
    \/ \E c \in Cores : Fallible(c, "interface_start", "shutdown_event")
    \/ \E c \in Cores : DispatchShutdownEvent(c)
    \/ \E c \in Cores : WaitForShutdown(c)
    \/ OtherProcessLocks

\* The calls of start in one process, on a store nobody uses yet.
InitCore ==
    /\ Init
    /\ track = "none"
    /\ ~is_transient
    /\ db = [k \in Keys |-> NoRow]
SpecCore == InitCore /\ [][NextCore]_vars

\* ---------------------------------------------------------------- properties
\* Callers inside the body of an operation, between the lock acquisition and
\* the end of the operation.
InBody(p) == pc[p] \in {"conn", "query", "exec", "execd"}
\* A get has just ended with an answer about the stored value.
GetAnswered(p) ==
    /\ pc[p] = "done"
    /\ cur[p].op = "get"
    /\ res[p].err \notin NoAnswer
\* A get has just ended with a value it issued no lookup for: the cache's.
GetAnsweredFromCache(p) ==
    /\ GetAnswered(p)
    /\ res[p].ok /\ res[p].val # None
    /\ cur[p].row = NoRow

\* C1: a get(k) that follows a successful set(k, v), with no set or remove on
\* k having taken the lock in between, returns Some(v) - from the cache, or
\* after an eviction from the row the set wrote.
C1_SetThenGet ==
    \A p \in Procs :
        (GetAnswered(p) /\ lastw[cur[p].k].op = "set")
            => res[p] = Ok(Some(lastw[cur[p].k].val))
C1_Witness ==
    \E p \in Procs :
        /\ GetAnswered(p)
        /\ lastw[cur[p].k].op = "set"
        /\ res[p] = Ok(Some(lastw[cur[p].k].val))

\* C2: a get(k) that follows a successful remove(k), with no set on k having
\* taken the lock in between, returns None.
C2_RemoveThenGet ==
    \A p \in Procs :
        (GetAnswered(p) /\ lastw[cur[p].k].op = "remove")
            => res[p] = Ok(None)
C2_Witness ==
    \E p \in Procs :
        /\ GetAnswered(p)
        /\ lastw[cur[p].k].op = "remove"
        /\ res[p] = Ok(None)

\* C3: at most one operation on a key is inside its body (past the lock
\* acquisition, not yet ended) at any time.
C3_OneInBodyPerKey ==
    \A p, q \in Procs :
        (p # q /\ InBody(p) /\ InBody(q)) => cur[p].k # cur[q].k
C3_Witness ==
    \E p, q \in Procs :
        /\ p # q
        /\ pc[p] \in {"query", "exec", "execd"}
        /\ pc[q] = "lock"
        /\ cur[q].k = cur[p].k

Writing(k) ==
    \E p \in Procs : InBody(p) /\ cur[p].k = k /\ cur[p].op \in {"set", "remove"}

C6_ExactlyOneLookup ==
    \A k \in Keys : fetched[k] <= 1
\* C6 amended: a lookup of k is in flight only while the cache holds no entry
\* for k: once a lookup has returned and its result is cached, every get of k
\* is answered from the cache, with no lookup, until k is written or evicted.
C6_LookupOnlyWhileUncached ==
    \A p \in Procs :
        pc[p] = "query" => ~CacheHas(cache, cur[p].k)
C6_Witness ==
    \E p, q \in Procs :
        /\ p # q
        /\ GetAnsweredFromCache(p)
        /\ fetched[cur[p].k] = 1
        /\ pc[q] = "lock" /\ cur[q].op = "get" /\ cur[q].k = cur[p].k

\* C7: an operation waiting for the lock of its key is held up only by an
\* operation inside its body on the same key, never by one on another key.
C7_OtherKeysIndependent ==
    \A p \in Procs :
        (Quiet /\ pc[p] = "lock" /\ ~ENABLED Acquire(p))
            => \E q \in Procs : q # p /\ InBody(q) /\ cur[q].k = cur[p].k
C7_Witness ==
    \E p, q \in Procs :
        /\ pc[p] \in {"query", "exec", "execd"}
        /\ InBody(q)
        /\ cur[q].k # cur[p].k

\* C8: a lock is held only by an operation inside its body on that key: an
\* operation that ended (Ok, error, dropped by its caller) holds none, and a
\* waiting operation on a key with no operation inside its body can take the
\* lock.
C8_NoLeakedLock ==
    /\ \A k \in Keys :
         lock_set[k] # NoHolder
             => (InBody(lock_set[k]) /\ LockKey(cur[lock_set[k]].k) = k)
    /\ \A p \in Procs :
         (Quiet /\ pc[p] = "lock"
            /\ ~\E q \in Procs : InBody(q) /\ cur[q].k = cur[p].k)
             => ENABLED Acquire(p)
C8_Witness ==
    \E p, q \in Procs :
        /\ p # q
        /\ pc[p] = "lock"
        /\ pc[q] = "done"
        /\ res[q].err \in {"query", "abandoned"}
        /\ cur[q].k = cur[p].k
        /\ lock_set[cur[p].k] = NoHolder

\* C9: a step in which connect_db or the query fails ends the operation with
\* that error; no step of an operation other than its successful end changes
\* the cache; and once its query is issued an operation issues no other.
C9_ErrorsPropagate ==
    /\ [][\A p \in Procs :
            (ConnectFail(p) \/ DbFail(p))
                => (pc'[p] = "done" /\ res'[p] \in {Err("connect"), Err("query")}
                    /\ db' = db)]_vars
    /\ [][\A p \in Procs :
            (pc'[p] # pc[p] /\ ~(pc'[p] = "done" /\ res'[p].ok))
                => cache' = cache]_vars
    /\ [][\A p \in Procs :
            (pc[p] \in {"query", "exec", "execd"} /\ pc'[p] # pc[p])
                => pc'[p] \in {"execd", "done"}]_vars
C9_Witness ==
    \E p \in Procs :
        /\ pc[p] = "done"
        /\ cur[p].op = "set"
        /\ res[p] = Err("query")
        /\ CacheHas(cache, cur[p].k)
        /\ CacheEntry(cache, cur[p].k) # Some(cur[p].v)

\* C10: a get that finds a row of an older schema identity the value type can
\* migrate from returns the migrated value and leaves it in the cache; between
\* two writes or evictions of the key the migration runs at most once.
C10_MigratedValueCached ==
    /\ \A p \in Procs :
         (GetAnswered(p) /\ InvokesMigration(db[cur[p].k]))
             => /\ res[p] = DoMigration(LookupId(db[cur[p].k].sid),
                                        db[cur[p].k].ver, db[cur[p].k].bytes)
                /\ CacheHas(cache, cur[p].k)
                /\ Ok(CacheEntry(cache, cur[p].k)) = res[p]
    /\ \A k \in Keys : migrations[k] <= 1
C10_Witness ==
    \E p \in Procs :
        /\ GetAnsweredFromCache(p)
        /\ InvokesMigration(db[cur[p].k])
        /\ res[p] = Ok(Some(Upgrade(1)))
        /\ migrations[cur[p].k] = 1

\* A row whose recorded identity is not the value type's current one and that
\* the value type cannot migrate from.
Unmigratable(row) ==
    /\ row # NoRow
    /\ ~(V_ID = LookupId(row.sid) /\ V_SCHEMA_VERSION = row.ver)
    /\ ~CanMigrateFrom(LookupId(row.sid), row.ver)

\* C11: in a persistent store a get that finds a row it cannot migrate returns
\* an error, never absence; the row stays in the table and no entry (no cached
\* absence) is left in the cache for the key.
C11_PersistentUnmigratableIsError ==
    \A p \in Procs :
        (GetAnswered(p) /\ ~is_transient /\ Unmigratable(cur[p].row))
            => /\ res[p] = Err("unmigratable")
               /\ db[cur[p].k] = cur[p].row
               /\ ~CacheHas(cache, cur[p].k)
C11_Witness ==
    \E p \in Procs :
        /\ GetAnswered(p) /\ ~is_transient /\ Unmigratable(cur[p].row)
        /\ res[p] = Err("unmigratable")

\* C12: in a transient store a get that finds a row it cannot migrate returns
\* absence, Ok(None), not an error.
C12_TransientUnmigratableIsAbsent ==
    \A p \in Procs :
        (GetAnswered(p) /\ is_transient /\ Unmigratable(cur[p].row))
            => res[p] = Ok(None)
C12_Witness ==
    \E p \in Procs :
        /\ GetAnswered(p) /\ is_transient /\ Unmigratable(cur[p].row)
        /\ res[p] = Ok(None)

\* C25: no step of a get changes the data table - the call, the lock, the
\* connection, a hit, the lookup, a direct deserialize, a migration, a
\* transient soft miss, an error, the drop of the future, the return: the rows,
\* with their value bytes and recorded schema identity, stay as they were.
C25_GetIsPureRead ==
    [][\A p \in Procs :
        ((cur[p].op = "get" \/ cur'[p].op = "get") /\ pc'[p] # pc[p])
            => db' = db]_vars
C25_Witness ==
    \E p \in Procs :
        /\ GetAnswered(p)
        /\ cur[p].row = db[cur[p].k]
        /\ InvokesMigration(cur[p].row)
        /\ res[p] = Ok(Some(Upgrade(1)))
        /\ db[cur[p].k].ver = V_OLD_VERSION

\* C26: an operation that takes the lock on a store the finalization event has
\* not bound ends there with the uninitialized-store panic: it issues no query,
\* leaves the table and the cache as they were, and the lock it took is free
\* again; while the store is unbound no operation is inside its body, no lock
\* is held and the cache is empty.
C26_UnboundStorePanics ==
    /\ [][\A p \in Procs :
            (Acquire(p) /\ ~data.bound)
                => /\ pc'[p] = "done" /\ res'[p] = Err("panic")
                   /\ db' = db
                   /\ cache' = cache
                   /\ lock_set'[LockKey(cur[p].k)] = NoHolder]_vars
    /\ [](~data.bound
            => /\ \A p \in Procs : ~InBody(p)
               /\ \A k \in Keys : lock_set[k] = NoHolder
               /\ cache = <<>>)
C26_Witness ==
    \E p, q \in Procs :
        /\ ~data.bound
        /\ pc[p] = "done" /\ cur[p].op = "set" /\ res[p] = Err("panic")
        /\ pc[q] = "lock" /\ cur[q].op = "get" /\ cur[q].k = cur[p].k
        /\ db[cur[p].k] # NoRow

\* C28: whenever no operation holds the lock of k, an entry the cache holds for
\* k is what load_value yields for the row of k.  It fails: a set or remove
\* dropped by its caller after the database executed the statement never
\* reaches cache.insert, and the entry of before stays.
C28_CacheCoherentAtQuiescence ==
    \A k \in Keys :
        (lock_set[LockKey(k)] = NoHolder /\ CacheHas(cache, k))
            => Ok(CacheEntry(cache, k)) = LoadValue(db[k], ~is_transient)
\* A set dropped after its statement was executed: the row has its value, the
\* cache another entry, and the lock is free.
C28_Witness ==
    \E p \in Procs :
        /\ pc[p] = "done" /\ cur[p].op = "set" /\ res[p] = Err("abandoned")
        /\ lock_set[LockKey(cur[p].k)] = NoHolder
        /\ db[cur[p].k] = StoredRow(cur[p].v, data.value_id)
        /\ CacheHas(cache, cur[p].k)
        /\ CacheEntry(cache, cur[p].k) # Some(cur[p].v)

\* C29: a get of a key the cache holds an entry for, unless its caller drops
\* it, returns that entry: it cannot fail on the database.  It fails: get
\* awaits connect_db before it asks the cache, and returns the connection
\* error while the entry is there.
C29_HitNeedsNoConnection ==
    \A p \in Procs :
        (/\ pc[p] = "done" /\ cur[p].op = "get"
         /\ res[p].err \notin {"abandoned", "abandoned-waiting", "panic"}
         /\ CacheHas(cache, cur[p].k))
            => res[p] = Ok(CacheEntry(cache, cur[p].k))
\* A get that returned the connection error for a key whose value is cached.
C29_Witness ==
    \E p \in Procs :
        /\ pc[p] = "done" /\ cur[p].op = "get" /\ res[p] = Err("connect")
        /\ CacheHas(cache, cur[p].k)
        /\ CacheEntry(cache, cur[p].k) # None
        /\ cur[p].row = NoRow

\* C22: a step of a set or remove changes the cache only when the database has
\* executed its statement (the row of the key is what the statement leaves):
\* the step is the successful end of the operation and leaves Some(v) for a
\* set, None for a remove; a statement the database has not executed, or that
\* failed, leaves the cache as it was.
C22_CacheAfterCommit ==
    /\ [][\A p \in Procs :
            (cur[p].op \in {"set", "remove"} /\ pc'[p] # pc[p] /\ cache' # cache)
                => /\ pc[p] = "execd"
                   /\ db = Executed(cur[p])
                   /\ db' = db
                   /\ pc'[p] = "done" /\ res'[p].ok
                   /\ CacheHas(cache', cur[p].k)
                   /\ CacheEntry(cache', cur[p].k) = WrittenEntry(cur[p])]_vars
    /\ [][\A p \in Procs :
            (pc[p] = "exec" /\ pc'[p] = "done") => (~res'[p].ok /\ cache' = cache)]_vars
C22_Witness ==
    \E p, q \in Procs :
        /\ pc[p] = "done" /\ cur[p].op = "remove" /\ res[p].ok
        /\ CacheHas(cache, cur[p].k) /\ CacheEntry(cache, cur[p].k) = None
        /\ db[cur[p].k] = NoRow
        /\ pc[q] = "exec" /\ cur[q].op = "set"
        /\ ~CacheHas(cache, cur[q].k)

\* ------------------------------------------------------ properties of init_kvs
\* The persisted state of both areas.
database == <<schema_version, kvs_info, tables, filled>>
\* The module of the declaration already declared a namespace in this pass.
AlreadyDeclared(d) == \E t \in stores : t[1] = d.module
\* The declaration names a namespace that has a metadata row, with this key
\* type or with another.
Redeclares(d) ==
    /\ ~AlreadyDeclared(d)
    /\ kvs_info[KvsTarget(d)] # NoMeta
    /\ module_metadata[KvsTarget(d)] # NoEntry
SameKeyType(d) ==
    /\ kvs_info[KvsTarget(d)].key_id = LookupName(d.key[1])
    /\ kvs_info[KvsTarget(d)].key_version = d.key[2]

\* C13: no two metadata rows, of either area, carry the same table_name.
C13_TableNamesUnique ==
    \A t1, t2 \in Targets :
        (t1 # t2 /\ kvs_info[t1] # NoMeta /\ kvs_info[t2] # NoMeta)
            => kvs_info[t1].table_name # kvs_info[t2].table_name
C13_Witness ==
    /\ kvs_info[<<"ma", FALSE>>] # NoMeta
    /\ kvs_info[<<"mb", TRUE>>] # NoMeta
    /\ kvs_info[<<"ma", TRUE>>] # NoMeta
    /\ Blake3Prefix(0, "ma") = Blake3Prefix(0, "mb")
    /\ kvs_info[<<"mb", TRUE>>].table_name = TableName(Blake3Prefix(0, "mb"))
    /\ kvs_info[<<"ma", FALSE>>].table_name = TableName(Blake3Prefix(1, "ma"))
    /\ kvs_info[<<"ma", TRUE>>].table_name = TableName(Blake3Prefix(3, "ma"))

\* C14: a declaration whose module name already declared a namespace in this
\* pass, in whichever area, is rejected with the duplicate error: it creates
\* no table and no metadata row, registers no store, and init_kvs ends there.
C14_DuplicateModuleRejected ==
    /\ [][\A d \in Decls :
            (InitModule(d) /\ AlreadyDeclared(d))
                => /\ phase' = "failed" /\ failure' = "duplicate"
                   /\ database' = database
                   /\ stores' = stores]_vars
    /\ [][failure = "duplicate" => (phase' = "down" /\ database' = database)]_vars
C14_Witness ==
    /\ phase = "failed" /\ failure = "duplicate"
    /\ \E t \in stores : t[2]
    /\ kvs_info[<<"ma", FALSE>>] = NoMeta /\ kvs_info[<<"mb", FALSE>>] = NoMeta

\* C15: a declaration that names a namespace of an earlier run with the same
\* key type creates no table and no row, marks the loaded entry used and keeps
\* its table_name.
C15_RedeclaredNamespaceReused ==
    [][\A d \in Decls :
        (InitModule(d) /\ Redeclares(d) /\ SameKeyType(d))
            => /\ database' = database
               /\ module_metadata'[KvsTarget(d)].is_used
               /\ module_metadata'[KvsTarget(d)].table_name = kvs_info[KvsTarget(d)].table_name
               /\ used_table_names' = used_table_names
               /\ KvsTarget(d) \in stores'
               /\ phase' = "dispatch"]_vars
C15_Witness ==
    \E t \in stores :
        /\ phase = "dispatch"
        /\ module_metadata[t].is_used
        /\ module_metadata[t].table_name = kvs_info[t].table_name
        /\ <<t[2], kvs_info[t].table_name>> \in filled

\* C16: a declaration that names a namespace of an earlier run with another
\* key schema name or version fails the startup: the database is left as it
\* is, no store is bound, and the only step after it is the end of the process.
C16_KeyMismatchFailsStartup ==
    /\ [][\A d \in Decls :
            (InitModule(d) /\ Redeclares(d) /\ ~SameKeyType(d))
                => /\ phase' = "failed" /\ failure' = "mismatch"
                   /\ database' = database
                   /\ bound' = bound]_vars
    /\ [][failure = "mismatch"
            => (phase' = "down" /\ database' = database /\ cleaned = {}
                /\ \A t \in Targets : bound[t] = <<>>)]_vars
C16_Witness ==
    /\ phase = "failed" /\ failure = "mismatch"
    /\ \E t \in Targets : module_metadata[t].is_used /\ t \notin stores

\* A transient namespace with a metadata row that no store of the running
\* process declared.
UnusedTransient(t) == t[2] /\ t \notin stores /\ kvs_info[t] # NoMeta

\* C17: once init_kvs has completed, a transient namespace no store declared
\* has neither its data table nor its metadata row.  It fails on the row: the
\* cleanup loop only drops the table.
C17_UnusedTransientGone ==
    phase = "up"
        => \A t \in Targets :
               (t[2] /\ t \notin stores)
                   => /\ kvs_info[t] = NoMeta
                      /\ \A n \in TableNames : <<TRUE, n>> \in tables
                             => \E u \in stores : u[2] /\ kvs_info[u].table_name = n
\* The state the cleanup leaves: the table dropped, its row still there.
C17_Witness ==
    /\ phase = "up"
    /\ \E t \in Targets :
           /\ UnusedTransient(t)
           /\ <<TRUE, kvs_info[t].table_name>> \notin tables

\* C18: no step of a startup changes the metadata row, the data table or the
\* value rows of a persistent namespace, declared or not; a store that
\* declares it in a later run is bound to the same table.
C18_PersistentNamespaceKept ==
    /\ [][phase # "up"
            => \A t \in Targets :
                   (~t[2] /\ kvs_info[t] # NoMeta)
                       => /\ kvs_info'[t] = kvs_info[t]
                          /\ (<<FALSE, kvs_info[t].table_name>> \in tables)
                                 = (<<FALSE, kvs_info[t].table_name>> \in tables')
                          /\ (<<FALSE, kvs_info[t].table_name>> \in filled)
                                 = (<<FALSE, kvs_info[t].table_name>> \in filled')]_vars
    /\ [](\A t \in Targets :
             (~t[2] /\ kvs_info[t] # NoMeta)
                 => /\ <<FALSE, kvs_info[t].table_name>> \in tables
                    /\ (phase = "up" /\ t \in stores) => bound[t] = kvs_info[t].table_name)
C18_Witness ==
    \E t \in Targets :
        /\ phase = "up"
        /\ ~t[2] /\ t \notin stores
        /\ kvs_info[t] # NoMeta
        /\ <<FALSE, kvs_info[t].table_name>> \in filled
        /\ stores # {}

\* C19: once init_kvs has completed, the table every store is bound to exists
\* in the store's area.  It fails for a transient store whose table an earlier
\* run dropped while keeping its row.
C19_BoundTableExists ==
    phase = "up" => \A t \in stores : <<t[2], bound[t]>> \in tables
\* A store bound to a table that is not there.
C19_Witness ==
    /\ phase = "up"
    /\ \E t \in stores :
           /\ t[2]
           /\ bound[t] = kvs_info[t].table_name
           /\ <<TRUE, bound[t]>> \notin tables

\* C20: execute_sync on an area whose stored version is the target version
\* applies no script: it changes nothing in the database and init_kvs goes on.
C20_MigrationIdempotent ==
    [][\A m \in {PERSISTENT_KVS_MIGRATIONS, TRANSIENT_KVS_MIGRATIONS} :
        (ExecuteSync(m) /\ schema_version[m.is_transient] = m.target_version)
            => /\ database' = database
               /\ phase' # "failed"]_vars
C20_Witness ==
    /\ phase = "connect"
    /\ \A area \in BOOLEAN : schema_version[area] = 1
    /\ \E t \in Targets : kvs_info[t] # NoMeta

\* The declaration makes init_module allocate a namespace: its module has not
\* declared in this pass and the loaded metadata has no entry for its target.
Allocates(d) == ~AlreadyDeclared(d) /\ module_metadata[KvsTarget(d)] = NoEntry
\* The data table has a metadata row that names it, in its area.
HasRow(id) == \E t \in Targets : t[2] = id[1] /\ kvs_info[t].table_name = id[2]

\* C23: a step of init_module that allocates a namespace either leaves the new
\* table and its metadata row both in the database, with the entry in the
\* in-memory map and the name in the used names, or fails and leaves the
\* database, the map and the used names as they were; no data table is ever in
\* the database without a metadata row that names it.
C23_CreateIsAtomic ==
    /\ [][\A d \in Decls :
            (InitModule(d) /\ Allocates(d))
                => LET t == KvsTarget(d)
                       table_name == CreateTableName(used_table_names, d.module, 0)
                       row == MetaRow(table_name, d.key[1], d.key[2])
                   IN
                   \/ /\ phase' = "dispatch"
                      /\ <<d.is_transient, table_name>> \in tables'
                      /\ kvs_info' = [kvs_info EXCEPT ![t] = row]
                      /\ module_metadata' = [module_metadata EXCEPT ![t] = KvsMetadata(row, TRUE)]
                      /\ used_table_names' = used_table_names \cup {table_name}
                   \/ /\ phase' = "failed" /\ failure' = "create"
                      /\ database' = database
                      /\ module_metadata' = module_metadata
                      /\ used_table_names' = used_table_names]_vars
    /\ [](\A id \in tables : HasRow(id))
C23_Witness ==
    /\ phase = "failed" /\ failure = "create"
    /\ \E t \in stores : t[2] /\ <<TRUE, kvs_info[t].table_name>> \in tables
    /\ \E t \in Targets : t \notin stores /\ kvs_info[t] = NoMeta /\ module_metadata[t] = NoEntry
    /\ Cardinality(tables) = Cardinality({t \in Targets : kvs_info[t] # NoMeta})

\* The place of a phase in the order init_kvs goes through.
PhaseRank(ph) ==
    CASE ph = "down" -> 0
      [] ph = "migrate_persistent" -> 1
      [] ph = "migrate_transient" -> 2
      [] ph = "connect" -> 3
      [] ph = "load_persistent" -> 4
      [] ph = "load_transient" -> 5
      [] ph = "dispatch" -> 6
      [] ph = "cleanup" -> 7
      [] ph = "late" -> 8
      [] OTHER -> 9

\* C24: init_kvs goes through migrations, load, reconciliation, cleanup and
\* finalization in this order, one phase at a time; a failure in a phase ends
\* it there with the failure recorded for the caller: the finalization event is
\* not dispatched after it, and no store is bound unless init_kvs completed.
C24_PhasesInOrderFailureAborts ==
    /\ [][phase' # phase
            => \/ /\ phase' = "failed"
                  /\ phase \notin {"down", "up", "failed"}
                  /\ failure' \in Failures
                  /\ bound' = bound
               \/ phase' = "down" /\ phase \in {"up", "failed"}
               \/ /\ phase # "failed" /\ phase' # "failed"
                  /\ PhaseRank(phase') = PhaseRank(phase) + 1]_vars
    /\ [][phase = "failed" => (phase' = "down" /\ database' = database)]_vars
    /\ [](failure # "" => phase = "failed")
    /\ [](phase # "up" => \A t \in Targets : bound[t] = <<>>)
C24_Witness ==
    /\ phase = "failed" /\ failure = "drop"
    /\ stores # {}
    /\ \E t \in Targets : module_metadata[t].is_used
    /\ \A t \in Targets : bound[t] = <<>>

\* C27: init_kvs fails only for a failure of the environment, a duplicate module
\* name or a changed key schema: never for what the cleanup of an earlier run
\* left.  It fails: the cleanup leaves the row of a dropped table, and the next
\* run that does not declare the namespace runs DROP TABLE on the missing table.
C27_CleanupNeverBreaksLaterRuns ==
    phase = "failed" => failure \in EnvironmentFailures \cup {"duplicate", "mismatch"}
\* A run that declared nothing and failed in its cleanup, on a namespace whose
\* table an earlier run dropped.
C27_Witness ==
    /\ phase = "failed" /\ failure = "no_table"
    /\ stores = {}
    /\ \E t \in Targets :
           /\ UnusedTransient(t)
           /\ ~module_metadata[t].is_used
           /\ <<TRUE, kvs_info[t].table_name>> \notin tables
    /\ \A t \in Targets : ~t[2] => kvs_info[t] = NoMeta

\* ------------------------------------------------- properties of SylphieCore
\* The calls of start that got past set_instance.
Begun == { c \in Cores : core_pc[c] \notin {"new", "panicked"} }

\* C21: at most one call of start in a process gets past set_instance; a call
\* made once another has begun panics there, before the lock file is
\* acquired, the modules are initialized or InitEvent is dispatched.
C21_OneCorePerProcess ==
    /\ [](/\ Cardinality(Begun) <= 1
          /\ initialized \subseteq Begun
          /\ dispatched \subseteq Begun
          /\ lock_file \in Begun \cup {Unlocked, OtherProcess})
    /\ [][\A c \in Cores :
            (SetInstance(c) /\ Begun # {})
                => /\ core_pc'[c] = "panicked"
                   /\ lock_file' = lock_file
                   /\ initialized' = initialized
                   /\ dispatched' = dispatched]_vars
C21_Witness ==
    \E c1, c2, c3 \in Cores :
        /\ core_pc[c1] = "returned_err" /\ c1 \in dispatched
        /\ core_pc[c2] = "panicked"
        /\ core_pc[c3] = "panicked"
        /\ c2 # c3
        /\ lock_file = Unlocked

====
